---- MODULE Spec2Model ----
(***************************************************************************)
(* Model of app.py (Bengali customer data -> Excel rows): the segmenter    *)
(* extract_customer_blocks, the field extractor process_customer_block     *)
(* with extract_phone_number and extract_amount, validate_data, and the    *)
(* processing loop of main.                                                *)
(*                                                                         *)
(* A Python str is a sequence of one-character strings, so that regular    *)
(* expressions, strip, split and join are computed character by character. *)
(* None is the tagged value NoneVal; a str result that may be None is      *)
(* Str(s).                                                                 *)
(***************************************************************************)
EXTENDS Integers, Sequences, FiniteSets, TLC

VARIABLES
    pc,               \* position of the running function
    input_text,       \* extract_customer_blocks: its argument
    blocks,           \* extract_customer_blocks: re.split result (line 59)
    customer_blocks,  \* extract_customer_blocks / main: the blocks found
    current_block,    \* extract_customer_blocks: the accumulating block
    used_fallback,    \* extract_customer_blocks: line 92 was executed
    block_text,       \* process_customer_block: its argument
    lines,            \* process_customer_block: block_text.strip().split('\n')
    i,                \* process_customer_block / main: the loop index (in the loop of
                      \* line 186 the index of the block the next pass takes)
    name, phone, address_lines, note, amount,  \* process_customer_block locals
    result,           \* process_customer_block: the returned dict
    user_input,       \* main: the text area's content
    all_data,         \* main: the valid records
    invalid_entries,  \* main: (i, data, missing_fields) of the rejected
    df,               \* main: the rows of the DataFrame, Invoice first
    messages,         \* main: what st.write, st.warning, st.error, st.success,
                      \* st.dataframe and st.download_button were given
    data,             \* validate_data: its argument
    missing_fields    \* validate_data: its result

vars == <<pc, input_text, blocks, customer_blocks, current_block, used_fallback,
          block_text, lines, i, name, phone, address_lines, note, amount, result,
          user_input, all_data, invalid_entries, df, messages, data, missing_fields>>

segVars == <<input_text, blocks, customer_blocks, current_block, used_fallback>>
blockVars == <<block_text, lines, name, phone, address_lines, note, amount, result>>
mainVars == <<user_input, all_data, invalid_entries, df, messages>>
valVars == <<data, missing_fields>>

(***************************************************************************)
(* Bounds of the model.                                                    *)
(***************************************************************************)
MaxTokens == 5      \* tokens concatenated into an input_text
MaxLines == 3       \* lines of a block_text
MaxBlocks == 3      \* customer entries of a user_input
MaxPhoneLen == 13   \* digits of the Phone of a record given to validate_data

\* lines 22-23: the {11} of the phone patterns
PhoneDigits == 11

\* line 157: the length a Phone must have
PhoneLength == 11

(***************************************************************************)
(* Python values and str primitives.                                       *)
(***************************************************************************)
NoneVal == [tag |-> "None", val |-> <<>>]
Str(s) == [tag |-> "str", val |-> s]
Truthy(v) == v.tag = "str" /\ v.val # <<>>

Min(S) == CHOOSE x \in S : \A y \in S : x <= y
Max(S) == CHOOSE x \in S : \A y \in S : x >= y

\* A character the module cannot hold in a string is written as the one
\* element "U+hhhh" naming its code point in four to six hexadecimal digits.
\*
\* str.isspace() and the regex class \s of a str pattern: the 29 characters
\* U+0009-000D, U+001C-001F, U+0020, U+0085, U+00A0, U+1680, U+2000-200A,
\* U+2028, U+2029, U+202F, U+205F and U+3000
ascii_whitespace == {" ", "\t", "\n", "\r", "\f"}

\* U+000B, U+001C, U+001D, U+001E, U+001F, U+0085, U+00A0, U+1680
other_whitespace == {"", "", "", "", "", "", " ", " "}

named_whitespace ==
    {"U+2000", "U+2001", "U+2002", "U+2003", "U+2004", "U+2005", "U+2006", "U+2007",
     "U+2008", "U+2009", "U+200A", "U+2028", "U+2029", "U+202F", "U+205F", "U+3000"}

whitespace_chars == ascii_whitespace \cup other_whitespace \cup named_whitespace

no_break_space == " "

IsSpace(c) == c \in whitespace_chars

bengali_digits == <<"০", "১", "২", "৩", "৪", "৫", "৬", "৭", "৮", "৯">>
english_digits == <<"0", "1", "2", "3", "4", "5", "6", "7", "8", "9">>

english_digit_chars == {english_digits[d] : d \in 1..10}
bengali_digit_chars == {bengali_digits[d] : d \in 1..10}

\* the decimal digits (category Nd) besides 0-9 and the Bengali digits that are
\* written as themselves, ten of each script from its zero: U+06F0, U+07C0,
\* U+0AE6, U+0BE6, U+0CE6, U+0DE6, U+0ED0, U+1090, U+17E0, U+19D0, U+1A80,
\* U+1A90, U+1BB0, U+A8D0, U+A9D0, U+A9F0, U+ABF0
written_digits ==
    {"۰", "۱", "۲", "۳", "۴", "۵", "۶", "۷", "۸", "۹",
      "߀", "߁", "߂", "߃", "߄", "߅", "߆", "߇", "߈", "߉",
      "૦", "૧", "૨", "૩", "૪", "૫", "૬", "૭", "૮", "૯",
      "௦", "௧", "௨", "௩", "௪", "௫", "௬", "௭", "௮", "௯",
      "೦", "೧", "೨", "೩", "೪", "೫", "೬", "೭", "೮", "೯",
      "෦", "෧", "෨", "෩", "෪", "෫", "෬", "෭", "෮", "෯",
      "໐", "໑", "໒", "໓", "໔", "໕", "໖", "໗", "໘", "໙",
      "႐", "႑", "႒", "႓", "႔", "႕", "႖", "႗", "႘", "႙",
      "០", "១", "២", "៣", "៤", "៥", "៦", "៧", "៨", "៩",
      "᧐", "᧑", "᧒", "᧓", "᧔", "᧕", "᧖", "᧗", "᧘", "᧙",
      "᪀", "᪁", "᪂", "᪃", "᪄", "᪅", "᪆", "᪇", "᪈", "᪉",
      "᪐", "᪑", "᪒", "᪓", "᪔", "᪕", "᪖", "᪗", "᪘", "᪙",
      "᮰", "᮱", "᮲", "᮳", "᮴", "᮵", "᮶", "᮷", "᮸", "᮹",
      "꣐", "꣑", "꣒", "꣓", "꣔", "꣕", "꣖", "꣗", "꣘", "꣙",
      "꧐", "꧑", "꧒", "꧓", "꧔", "꧕", "꧖", "꧗", "꧘", "꧙",
      "꧰", "꧱", "꧲", "꧳", "꧴", "꧵", "꧶", "꧷", "꧸", "꧹",
      "꯰", "꯱", "꯲", "꯳", "꯴", "꯵", "꯶", "꯷", "꯸", "꯹" }

\* the decimal digits written by their code points, ten of each script
named_digits ==
    {"U+0660", "U+0661", "U+0662", "U+0663", "U+0664", "U+0665", "U+0666", "U+0667", "U+0668", "U+0669",
      "U+0966", "U+0967", "U+0968", "U+0969", "U+096A", "U+096B", "U+096C", "U+096D", "U+096E", "U+096F",
      "U+0A66", "U+0A67", "U+0A68", "U+0A69", "U+0A6A", "U+0A6B", "U+0A6C", "U+0A6D", "U+0A6E", "U+0A6F",
      "U+0B66", "U+0B67", "U+0B68", "U+0B69", "U+0B6A", "U+0B6B", "U+0B6C", "U+0B6D", "U+0B6E", "U+0B6F",
      "U+0C66", "U+0C67", "U+0C68", "U+0C69", "U+0C6A", "U+0C6B", "U+0C6C", "U+0C6D", "U+0C6E", "U+0C6F",
      "U+0D66", "U+0D67", "U+0D68", "U+0D69", "U+0D6A", "U+0D6B", "U+0D6C", "U+0D6D", "U+0D6E", "U+0D6F",
      "U+0E50", "U+0E51", "U+0E52", "U+0E53", "U+0E54", "U+0E55", "U+0E56", "U+0E57", "U+0E58", "U+0E59",
      "U+0F20", "U+0F21", "U+0F22", "U+0F23", "U+0F24", "U+0F25", "U+0F26", "U+0F27", "U+0F28", "U+0F29",
      "U+1040", "U+1041", "U+1042", "U+1043", "U+1044", "U+1045", "U+1046", "U+1047", "U+1048", "U+1049",
      "U+1810", "U+1811", "U+1812", "U+1813", "U+1814", "U+1815", "U+1816", "U+1817", "U+1818", "U+1819",
      "U+1946", "U+1947", "U+1948", "U+1949", "U+194A", "U+194B", "U+194C", "U+194D", "U+194E", "U+194F",
      "U+1B50", "U+1B51", "U+1B52", "U+1B53", "U+1B54", "U+1B55", "U+1B56", "U+1B57", "U+1B58", "U+1B59",
      "U+1C40", "U+1C41", "U+1C42", "U+1C43", "U+1C44", "U+1C45", "U+1C46", "U+1C47", "U+1C48", "U+1C49",
      "U+1C50", "U+1C51", "U+1C52", "U+1C53", "U+1C54", "U+1C55", "U+1C56", "U+1C57", "U+1C58", "U+1C59",
      "U+A620", "U+A621", "U+A622", "U+A623", "U+A624", "U+A625", "U+A626", "U+A627", "U+A628", "U+A629",
      "U+A900", "U+A901", "U+A902", "U+A903", "U+A904", "U+A905", "U+A906", "U+A907", "U+A908", "U+A909",
      "U+AA50", "U+AA51", "U+AA52", "U+AA53", "U+AA54", "U+AA55", "U+AA56", "U+AA57", "U+AA58", "U+AA59",
      "U+FF10", "U+FF11", "U+FF12", "U+FF13", "U+FF14", "U+FF15", "U+FF16", "U+FF17", "U+FF18", "U+FF19",
      "U+104A0", "U+104A1", "U+104A2", "U+104A3", "U+104A4", "U+104A5", "U+104A6", "U+104A7", "U+104A8", "U+104A9",
      "U+10D30", "U+10D31", "U+10D32", "U+10D33", "U+10D34", "U+10D35", "U+10D36", "U+10D37", "U+10D38", "U+10D39",
      "U+11066", "U+11067", "U+11068", "U+11069", "U+1106A", "U+1106B", "U+1106C", "U+1106D", "U+1106E", "U+1106F",
      "U+110F0", "U+110F1", "U+110F2", "U+110F3", "U+110F4", "U+110F5", "U+110F6", "U+110F7", "U+110F8", "U+110F9",
      "U+11136", "U+11137", "U+11138", "U+11139", "U+1113A", "U+1113B", "U+1113C", "U+1113D", "U+1113E", "U+1113F",
      "U+111D0", "U+111D1", "U+111D2", "U+111D3", "U+111D4", "U+111D5", "U+111D6", "U+111D7", "U+111D8", "U+111D9",
      "U+112F0", "U+112F1", "U+112F2", "U+112F3", "U+112F4", "U+112F5", "U+112F6", "U+112F7", "U+112F8", "U+112F9",
      "U+11450", "U+11451", "U+11452", "U+11453", "U+11454", "U+11455", "U+11456", "U+11457", "U+11458", "U+11459",
      "U+114D0", "U+114D1", "U+114D2", "U+114D3", "U+114D4", "U+114D5", "U+114D6", "U+114D7", "U+114D8", "U+114D9",
      "U+11650", "U+11651", "U+11652", "U+11653", "U+11654", "U+11655", "U+11656", "U+11657", "U+11658", "U+11659",
      "U+116C0", "U+116C1", "U+116C2", "U+116C3", "U+116C4", "U+116C5", "U+116C6", "U+116C7", "U+116C8", "U+116C9",
      "U+11730", "U+11731", "U+11732", "U+11733", "U+11734", "U+11735", "U+11736", "U+11737", "U+11738", "U+11739",
      "U+118E0", "U+118E1", "U+118E2", "U+118E3", "U+118E4", "U+118E5", "U+118E6", "U+118E7", "U+118E8", "U+118E9",
      "U+11950", "U+11951", "U+11952", "U+11953", "U+11954", "U+11955", "U+11956", "U+11957", "U+11958", "U+11959",
      "U+11C50", "U+11C51", "U+11C52", "U+11C53", "U+11C54", "U+11C55", "U+11C56", "U+11C57", "U+11C58", "U+11C59",
      "U+11D50", "U+11D51", "U+11D52", "U+11D53", "U+11D54", "U+11D55", "U+11D56", "U+11D57", "U+11D58", "U+11D59",
      "U+11DA0", "U+11DA1", "U+11DA2", "U+11DA3", "U+11DA4", "U+11DA5", "U+11DA6", "U+11DA7", "U+11DA8", "U+11DA9",
      "U+16A60", "U+16A61", "U+16A62", "U+16A63", "U+16A64", "U+16A65", "U+16A66", "U+16A67", "U+16A68", "U+16A69",
      "U+16AC0", "U+16AC1", "U+16AC2", "U+16AC3", "U+16AC4", "U+16AC5", "U+16AC6", "U+16AC7", "U+16AC8", "U+16AC9",
      "U+16B50", "U+16B51", "U+16B52", "U+16B53", "U+16B54", "U+16B55", "U+16B56", "U+16B57", "U+16B58", "U+16B59",
      "U+1D7CE", "U+1D7CF", "U+1D7D0", "U+1D7D1", "U+1D7D2", "U+1D7D3", "U+1D7D4", "U+1D7D5", "U+1D7D6", "U+1D7D7",
      "U+1D7D8", "U+1D7D9", "U+1D7DA", "U+1D7DB", "U+1D7DC", "U+1D7DD", "U+1D7DE", "U+1D7DF", "U+1D7E0", "U+1D7E1",
      "U+1D7E2", "U+1D7E3", "U+1D7E4", "U+1D7E5", "U+1D7E6", "U+1D7E7", "U+1D7E8", "U+1D7E9", "U+1D7EA", "U+1D7EB",
      "U+1D7EC", "U+1D7ED", "U+1D7EE", "U+1D7EF", "U+1D7F0", "U+1D7F1", "U+1D7F2", "U+1D7F3", "U+1D7F4", "U+1D7F5",
      "U+1D7F6", "U+1D7F7", "U+1D7F8", "U+1D7F9", "U+1D7FA", "U+1D7FB", "U+1D7FC", "U+1D7FD", "U+1D7FE", "U+1D7FF",
      "U+1E140", "U+1E141", "U+1E142", "U+1E143", "U+1E144", "U+1E145", "U+1E146", "U+1E147", "U+1E148", "U+1E149",
      "U+1E2F0", "U+1E2F1", "U+1E2F2", "U+1E2F3", "U+1E2F4", "U+1E2F5", "U+1E2F6", "U+1E2F7", "U+1E2F8", "U+1E2F9",
      "U+1E950", "U+1E951", "U+1E952", "U+1E953", "U+1E954", "U+1E955", "U+1E956", "U+1E957", "U+1E958", "U+1E959",
      "U+1FBF0", "U+1FBF1", "U+1FBF2", "U+1FBF3", "U+1FBF4", "U+1FBF5", "U+1FBF6", "U+1FBF7", "U+1FBF8", "U+1FBF9" }

\* the regex class \d of a str pattern: the 660 decimal digits of Unicode
digit_chars == english_digit_chars \cup bengali_digit_chars \cup written_digits \cup named_digits
IsDigit(c) == c \in digit_chars

\* line 12: the translation table, character by character
TranslateChar(c) ==
    IF c \in bengali_digit_chars
    THEN english_digits[CHOOSE d \in 1..10 : c = bengali_digits[d]]
    ELSE c

bengali_to_english_digits(text) == [p \in 1..Len(text) |-> TranslateChar(text[p])]

upper_letters == <<"A", "B", "C", "D", "E", "F", "G", "H", "I", "J", "K", "L", "M",
                   "N", "O", "P", "Q", "R", "S", "T", "U", "V", "W", "X", "Y", "Z">>
lower_letters == <<"a", "b", "c", "d", "e", "f", "g", "h", "i", "j", "k", "l", "m",
                   "n", "o", "p", "q", "r", "s", "t", "u", "v", "w", "x", "y", "z">>

\* re.IGNORECASE on the letters of the markers: a character matches the
\* letter n, a, m or e when it is that letter in either case, and no other
\* character folds to one of them
upper_letter_chars == {upper_letters[d] : d \in 1..26}

Lower(c) ==
    IF c \in upper_letter_chars
    THEN lower_letters[CHOOSE d \in 1..26 : c = upper_letters[d]]
    ELSE c

\* s.strip()
Strip(s) ==
    LET keep == {p \in 1..Len(s) : ~IsSpace(s[p])}
    IN  IF keep = {} THEN <<>> ELSE SubSeq(s, Min(keep), Max(keep))

\* s.split(c), c one character
RECURSIVE Split(_, _)
Split(s, c) ==
    LET at == {p \in 1..Len(s) : s[p] = c}
    IN  IF at = {} THEN <<s>>
        ELSE <<SubSeq(s, 1, Min(at) - 1)>> \o Split(SubSeq(s, Min(at) + 1, Len(s)), c)

\* c.join(ls), c one character
RECURSIVE Join(_, _)
Join(ls, c) ==
    IF ls = <<>> THEN <<>>
    ELSE IF Len(ls) = 1 THEN ls[1]
    ELSE ls[1] \o <<c>> \o Join(Tail(ls), c)

\* kw occurs in s at position p
At(s, p, kw) == p >= 1 /\ p + Len(kw) - 1 <= Len(s) /\ SubSeq(s, p, p + Len(kw) - 1) = kw

\* kw in s
Contains(s, kw) == \E p \in 1..(Len(s) + 1) : At(s, p, kw)

\* kw occurs in s at position p, compared under re.IGNORECASE
AtIgnoreCase(s, p, kw) ==
    /\ p >= 1
    /\ p + Len(kw) - 1 <= Len(s)
    /\ \A q \in 1..Len(kw) : Lower(s[p + q - 1]) = Lower(kw[q])

\* the last position of the run of characters of the class that starts at p
\* (p - 1 when s[p] is not in the class): a greedy \s*, \d* or \n*
SpaceRunEnd(s, p) ==
    Min({q \in p..(Len(s) + 1) : q > Len(s) \/ ~IsSpace(s[q])}) - 1

DigitRunEnd(s, p) ==
    Min({q \in p..(Len(s) + 1) : q > Len(s) \/ ~IsDigit(s[q])}) - 1

NewlineRunEnd(s, p) ==
    Min({q \in p..(Len(s) + 1) : q > Len(s) \/ s[q] # "\n"}) - 1

(***************************************************************************)
(* extract_customer_blocks                                                 *)
(***************************************************************************)
\* re.sub(r'\r\n', '\n', s)
RECURSIVE SubCRLF(_)
SubCRLF(s) ==
    LET found == {p \in 1..Len(s) : At(s, p, <<"\r", "\n">>)}
    IN  IF found = {} THEN s
        ELSE SubSeq(s, 1, Min(found) - 1) \o <<"\n">>
             \o SubCRLF(SubSeq(s, Min(found) + 2, Len(s)))

\* re.sub(r'\r', '\n', s)
SubCR(s) == [p \in 1..Len(s) |-> IF s[p] = "\r" THEN "\n" ELSE s[p]]

\* The end of the match of \n\s*\n\s*\n+ at p, 0 when it does not match
\* there.  Each \s* is greedy and gives characters back until the \n after
\* it matches: the second \n is the last one that still leaves a \n+ in the
\* run of whitespace, and the \n+ starts at the last \n of the run.
BlankRunMatchEnd(s, p) ==
    IF ~(p <= Len(s) /\ s[p] = "\n") THEN 0
    ELSE LET e == SpaceRunEnd(s, p)
             second == {b \in (p + 1)..e :
                           s[b] = "\n" /\ \E c \in (b + 1)..e : s[c] = "\n"}
         IN  IF second = {} THEN 0
             ELSE LET b == Max(second)
                      c == Max({q \in (b + 1)..e : s[q] = "\n"})
                  IN  NewlineRunEnd(s, c)

\* re.sub(r'\n\s*\n\s*\n+', '\n\n', s), scanning from p
RECURSIVE SubBlankRuns(_, _)
SubBlankRuns(s, p) ==
    LET found == {q \in p..Len(s) : BlankRunMatchEnd(s, q) > 0}
    IN  IF found = {} THEN SubSeq(s, p, Len(s))
        ELSE SubSeq(s, p, Min(found) - 1) \o <<"\n", "\n">>
             \o SubBlankRuns(s, BlankRunMatchEnd(s, Min(found)) + 1)

\* The end of the match of \n\s*\n at p, 0 when it does not match there.
BlankLineMatchEnd(s, p) ==
    IF ~(p <= Len(s) /\ s[p] = "\n") THEN 0
    ELSE LET e == SpaceRunEnd(s, p)
             last == {b \in (p + 1)..e : s[b] = "\n"}
         IN  IF last = {} THEN 0 ELSE Max(last)

\* re.split(r'\n\s*\n', s), from position p on
RECURSIVE SplitBlankLines(_, _)
SplitBlankLines(s, p) ==
    LET found == {q \in p..Len(s) : BlankLineMatchEnd(s, q) > 0}
    IN  IF found = {} THEN <<SubSeq(s, p, Len(s))>>
        ELSE <<SubSeq(s, p, Min(found) - 1)>>
             \o SplitBlankLines(s, BlankLineMatchEnd(s, Min(found)) + 1)

\* lines 54-56
NormalizeText(text) == SubBlankRuns(SubCR(SubCRLF(text)), 1)

\* lines 54-59: the candidate segments
SplitBlocks(text) == SplitBlankLines(Strip(NormalizeText(text)), 1)

NonEmpty(s) == s # <<>>

\* lines 66-67: [line.strip() for line in block.split('\n') if line.strip()]
CleanLines(block) ==
    LET raw == Split(block, "\n")
    IN  SelectSeq([p \in 1..Len(raw) |-> Strip(raw[p])], NonEmpty)

\* line 73: the alternatives of ^(...) in the order the regex tries them
segment_name_markers ==
    << <<"ন", "া", "ম">>, <<"n", "a", "m", "e">>, <<"n", "a", "m">>,
       <<"আ", "প", "ন", "া", "র", " ", "ন", "া", "ম">> >>

\* re.match(r'^(...)', line, re.IGNORECASE)
MatchesNameMarker(line) ==
    \E a \in 1..Len(segment_name_markers) : AtIgnoreCase(line, 1, segment_name_markers[a])

\* the mutant of starts_with_name: only the first line is looked at
starts_with_name_first_line_only(ls) ==
    ls # <<>> /\ MatchesNameMarker(ls[1])

\* line 73: any(re.match(...) for line in lines[:2])
starts_with_name(ls) ==
    \E p \in 1..Len(ls) : p <= 2 /\ MatchesNameMarker(ls[p])

\* the mutant of SegmentStep: a non-marked segment replaces the current block
SegmentStepDropping(st, block) ==
    LET ls == CleanLines(block)
    IN  IF ls = <<>> THEN st
        ELSE IF starts_with_name(ls) /\ st.current_block # <<>>
        THEN [customer_blocks |-> Append(st.customer_blocks, Join(st.current_block, "\n")),
              current_block |-> ls]
        ELSE [st EXCEPT !.current_block = ls]

\* lines 65-84: one iteration of the loop over blocks
SegmentStep(st, block) ==
    LET ls == CleanLines(block)
    IN  IF ls = <<>> THEN st
        ELSE IF starts_with_name(ls) /\ st.current_block # <<>>
        THEN [customer_blocks |-> Append(st.customer_blocks, Join(st.current_block, "\n")),
              current_block |-> ls]
        ELSE IF st.current_block # <<>>
        THEN [st EXCEPT !.current_block = st.current_block \o ls]
        ELSE [st EXCEPT !.current_block = ls]

\* lines 86-88: the last block
FlushLast(st) ==
    IF st.current_block # <<>>
    THEN Append(st.customer_blocks, Join(st.current_block, "\n"))
    ELSE st.customer_blocks

\* line 91: the condition of the whole-text fallback
NeedsFallback(found, text) == found = <<>> /\ Strip(text) # <<>>

\* lines 90-92
WithFallback(found, text) ==
    IF NeedsFallback(found, text) THEN <<Strip(text)>> ELSE found

RECURSIVE SegmentLoop(_, _)
SegmentLoop(st, bs) ==
    IF bs = <<>> THEN st ELSE SegmentLoop(SegmentStep(st, Head(bs)), Tail(bs))

\* the function as a whole, as main calls it
extract_customer_blocks(text) ==
    WithFallback(
        FlushLast(SegmentLoop([customer_blocks |-> <<>>, current_block |-> <<>>],
                              SplitBlocks(text))),
        text)

(***************************************************************************)
(* extract_phone_number, extract_amount                                    *)
(***************************************************************************)
\* n digits (\d{n}) at position p of s
DigitsAt(s, p, n) == p >= 1 /\ p + n - 1 <= Len(s) /\ \A q \in p..(p + n - 1) : IsDigit(s[q])

\* re.search(r'(\d{11})', s): group 1 of the leftmost match, or None
SearchElevenDigits(s) ==
    LET starts == {p \in 1..Len(s) : DigitsAt(s, p, PhoneDigits)}
    IN  IF starts = {} THEN NoneVal
        ELSE Str(SubSeq(s, Min(starts), Min(starts) + PhoneDigits - 1))

\* re.search(r'\+88(\d{11})', s): group 1 of the leftmost match, or None
SearchPlus88(s) ==
    LET starts == {p \in 1..Len(s) : At(s, p, <<"+", "8", "8">>) /\ DigitsAt(s, p + 3, PhoneDigits)}
    IN  IF starts = {} THEN NoneVal
        ELSE Str(SubSeq(s, Min(starts) + 3, Min(starts) + 3 + PhoneDigits - 1))

\* lines 15-31: the patterns are tried in the order of the list
extract_phone_number(line) ==
    LET english_line == bengali_to_english_digits(line)
        standard == SearchElevenDigits(english_line)
        prefixed == SearchPlus88(english_line)
    IN  IF standard # NoneVal THEN standard
        ELSE IF prefixed # NoneVal THEN prefixed
        ELSE NoneVal

taka_bengali == <<"ট", "া", "ক", "া">>
taka_english == <<"T", "a", "k", "a">>

\* the first alternative of line 39, (\d+)\s*টাকা, matches at p: \d+ and \s*
\* are greedy, and giving characters back never lets the rest match
AmountAltNumber(s, p) ==
    /\ p <= Len(s) /\ IsDigit(s[p])
    /\ At(s, SpaceRunEnd(s, DigitRunEnd(s, p) + 1) + 1, taka_bengali)

\* the second alternative of line 39, Taka alone: it has no group
AmountAltTaka(s, p) == At(s, p, taka_english)

\* lines 33-49
extract_amount(note_text) ==
    LET text == bengali_to_english_digits(note_text)
        found == {p \in 1..Len(text) : AmountAltNumber(text, p) \/ AmountAltTaka(text, p)}
        digits == {p \in 1..Len(text) : IsDigit(text[p])}
    IN  IF found # {}
        THEN IF AmountAltNumber(text, Min(found))
             THEN Str(SubSeq(text, Min(found), DigitRunEnd(text, Min(found))))
             ELSE NoneVal
        ELSE IF digits # {}
        THEN Str(SubSeq(text, Min(digits), DigitRunEnd(text, Min(digits))))
        ELSE NoneVal

(***************************************************************************)
(* process_customer_block                                                  *)
(***************************************************************************)
\* line 116: the keywords looked for with "in"
name_keywords == << <<"ন", "া", "ম">>, <<"n", "a", "m", "e">>, <<"n", "a", "m">> >>

\* line 117: the alternatives of ^(...) in the order the regex tries them
name_prefix_markers ==
    << <<"ন", "া", "ম">>, <<"আ", "প", "ন", "া", "র", " ", "ন", "া", "ম">>, <<"n", "a", "m", "e">>, <<"n", "a", "m">> >>

\* line 126
address_keywords ==
    << <<"জ", "ে", "ল", "া">>, <<"থ", "া", "ন", "া">>, <<"এ", "ল", "া", "ক", "া">>, <<"ঠ", "ি", "ক", "া", "ন", "া">>,
       <<"এ", "ল", "া", "ক", "া", "র", " ", "ন", "া", "ম">>, <<"a", "d", "d", "r", "e", "s", "s">>, <<"a", "r", "e", "a">> >>

\* lines 127 and 131
order_keywords == << <<"অ", "র", "্", "ড", "া", "র">>, <<"অ", "ড", "া", "র">>, <<"o", "r", "d", "e", "r">> >>

\* any(keyword in line for keyword in kws)
ContainsAny(line, kws) == \E a \in 1..Len(kws) : Contains(line, kws[a])

\* line 117: re.sub(r'^(...)\s*[:<U+FF1A>]?\s*', '', line, flags=re.IGNORECASE).
\* The class holds the colon and the full-width colon U+FF1A.
SubNamePrefix(line) ==
    LET alts == {a \in 1..Len(name_prefix_markers) : AtIgnoreCase(line, 1, name_prefix_markers[a])}
    IN  IF alts = {} THEN line
        ELSE LET afterMarker == Len(name_prefix_markers[Min(alts)])
                 afterSpace == SpaceRunEnd(line, afterMarker + 1)
                 afterColon == IF afterSpace + 1 <= Len(line) /\ line[afterSpace + 1] \in {":", "U+FF1A"}
                               THEN afterSpace + 1 ELSE afterSpace
                 matchEnd == SpaceRunEnd(line, afterColon + 1)
             IN  SubSeq(line, matchEnd + 1, Len(line))

\* lines 133-137: the index of the next non-empty line after index at, or -1
NextNonEmpty(ls, at) ==
    LET later == {j \in (at + 1)..(Len(ls) - 1) : Strip(ls[j + 1]) # <<>>}
    IN  IF later = {} THEN -1 ELSE Min(later)

\* lines 109-137: the body of the loop for the line of (0-based) index at
LineStep(st, ls, at) ==
    LET line == Strip(ls[at + 1])
        takesName == st.name = <<>> /\ (at = 0 \/ ContainsAny(line, name_keywords))
        extracted_phone == extract_phone_number(line)
        isAddress == ContainsAny(line, address_keywords) /\ ~ContainsAny(line, order_keywords)
        j == NextNonEmpty(ls, at)
        hasNote == ContainsAny(line, order_keywords) /\ j # -1
    IN  IF line = <<>> THEN st
        ELSE [name |-> IF takesName THEN Strip(SubNamePrefix(line)) ELSE st.name,
              phone |-> IF st.phone = <<>> /\ Truthy(extracted_phone)
                        THEN extracted_phone.val ELSE st.phone,
              address_lines |-> IF isAddress THEN Append(st.address_lines, line)
                                ELSE st.address_lines,
              note |-> IF hasNote THEN Strip(ls[j + 1]) ELSE st.note,
              amount |-> IF hasNote THEN extract_amount(Strip(ls[j + 1])) ELSE st.amount]

\* line 98
BlockLines(text) == Split(Strip(text), "\n")

\* lines 100-105
InitialFields ==
    [name |-> <<>>, phone |-> <<>>, address_lines |-> <<>>, note |-> <<>>,
     amount |-> Str(<<>>)]

\* lines 139-149
MakeRecord(st) ==
    [Name |-> st.name,
     Address |-> Join(st.address_lines, "\n"),
     Phone |-> st.phone,
     Amount |-> st.amount,
     Note |-> st.note,
     DeliveryType |-> <<"H", "o", "m", "e">>]

RECURSIVE ScanLines(_, _, _)
ScanLines(st, ls, at) ==
    IF at >= Len(ls) THEN st ELSE ScanLines(LineStep(st, ls, at), ls, at + 1)

\* the function as a whole, as main calls it
process_customer_block(text) == MakeRecord(ScanLines(InitialFields, BlockLines(text), 0))

\* the tokens an input_text of the model is made of
SegTokens ==
    { <<"N", "a", "m", "e", ":", "A">>, <<"ন", "া", "ম">>, <<"x">>,
      <<"\n">>, <<"\n", "\n">>, <<"\r">>, <<" ", "\f">> }

RECURSIVE Concat(_)
Concat(ss) == IF ss = <<>> THEN <<>> ELSE Head(ss) \o Concat(Tail(ss))

TokenTexts(tokens, maxLen) ==
    {Concat(ts) : ts \in UNION {[1..n -> tokens] : n \in 0..maxLen}}

\* the locals of a function that is not running
SegIdle ==
    /\ input_text = <<>> /\ blocks = <<>> /\ customer_blocks = <<>>
    /\ current_block = <<>> /\ used_fallback = FALSE

BlockIdle ==
    /\ block_text = <<>> /\ lines = <<>>
    /\ name = <<>> /\ phone = <<>> /\ address_lines = <<>> /\ note = <<>>
    /\ amount = Str(<<>>) /\ result = NoneVal

MainIdle ==
    /\ user_input = <<>> /\ all_data = <<>> /\ invalid_entries = <<>>
    /\ df = <<>> /\ messages = <<>>

ValidateIdle == data = NoneVal /\ missing_fields = <<>>

\* extract_customer_blocks(input_text) is called
SegInit ==
    /\ pc = "seg_split"
    /\ input_text \in TokenTexts(SegTokens, MaxTokens)
    /\ blocks = <<>> /\ customer_blocks = <<>>
    /\ current_block = <<>> /\ used_fallback = FALSE
    /\ i = 0
    /\ BlockIdle /\ MainIdle /\ ValidateIdle

\* lines 54-63
SegSplit ==
    /\ pc = "seg_split"
    /\ blocks' = SplitBlocks(input_text)
    /\ customer_blocks' = <<>>
    /\ current_block' = <<>>
    /\ pc' = "seg_loop"
    /\ UNCHANGED <<input_text, used_fallback, i, blockVars, mainVars, valVars>>

\* lines 65-84, one block of the loop
SegLoopStep ==
    /\ pc = "seg_loop"
    /\ blocks # <<>>
    /\ \E st \in {SegmentStep([customer_blocks |-> customer_blocks,
                                current_block |-> current_block], Head(blocks))} :
           /\ customer_blocks' = st.customer_blocks
           /\ current_block' = st.current_block
    /\ blocks' = Tail(blocks)
    /\ UNCHANGED <<pc, input_text, used_fallback, i, blockVars, mainVars, valVars>>

\* lines 86-94
SegFinish ==
    /\ pc = "seg_loop"
    /\ blocks = <<>>
    /\ \E found \in {FlushLast([customer_blocks |-> customer_blocks,
                                 current_block |-> current_block])} :
           /\ used_fallback' = NeedsFallback(found, input_text)
           /\ customer_blocks' = WithFallback(found, input_text)
    /\ pc' = "seg_done"
    /\ UNCHANGED <<input_text, blocks, current_block, i, blockVars, mainVars, valVars>>

SegNext == SegSplit \/ SegLoopStep \/ SegFinish

SpecSeg == SegInit /\ [][SegNext]_vars

\* the lines a block_text of the model is made of
BlockPoolLines ==
    { <<"n", "a", "m", ":">>,
      <<"N", "a", "m", "e", ":", " ", "A">>,
      <<"m", "y", " ", "n", "a", "m", "e", " ", "C">>,
      <<"s", "h", "i", "r", "t">>,
      <<"0", "1", "7", "1", "2", "3", "4", "5", "6", "7", "8">>,
      <<"+", "8", "8", "0", "1", "7", "1", "2", "3", "4", "5", "6", "7", "8">>,
      <<"a", "r", "e", "a", " ", "X">>,
      <<"A", "R", "E", "A", " ", "Y">>,
      <<"o", "r", "d", "e", "r", " ", "a", "r", "e", "a">>,
      <<"o", "r", "d", "e", "r">>,
      <<"5", " ", "T", "a", "k", "a">>,
      <<"৫", " ", "ট", "া", "ক", "া">>,
      <<" ", no_break_space>>,
      <<"ন", "া", "ম", ":", " ", "ক">>,
      <<"۰", "۱", "۷", "۱", "۲", "۳", "۴", "۵", "۶", "۷", "۸">> }

LineTexts(pool, maxLen) ==
    {Join(ls, "\n") : ls \in UNION {[1..n -> pool] : n \in 1..maxLen}}

\* process_customer_block(block_text) is called
BlockInit ==
    /\ pc = "block_start"
    /\ block_text \in LineTexts(BlockPoolLines, MaxLines)
    /\ lines = <<>> /\ i = 0
    /\ name = <<>> /\ phone = <<>> /\ address_lines = <<>> /\ note = <<>>
    /\ amount = Str(<<>>) /\ result = NoneVal
    /\ SegIdle /\ MainIdle /\ ValidateIdle

\* lines 98-105
BlockStart ==
    /\ pc = "block_start"
    /\ lines' = BlockLines(block_text)
    /\ name' = InitialFields.name
    /\ phone' = InitialFields.phone
    /\ address_lines' = InitialFields.address_lines
    /\ note' = InitialFields.note
    /\ amount' = InitialFields.amount
    /\ i' = 0
    /\ pc' = "block_loop"
    /\ UNCHANGED <<block_text, result, segVars, mainVars, valVars>>

\* lines 108-137, the line of index i
BlockLine ==
    /\ pc = "block_loop"
    /\ i < Len(lines)
    /\ \E st \in {LineStep([name |-> name, phone |-> phone,
                             address_lines |-> address_lines,
                             note |-> note, amount |-> amount], lines, i)} :
           /\ name' = st.name
           /\ phone' = st.phone
           /\ address_lines' = st.address_lines
           /\ note' = st.note
           /\ amount' = st.amount
    /\ i' = i + 1
    /\ UNCHANGED <<pc, block_text, lines, result, segVars, mainVars, valVars>>

\* lines 139-149
BlockReturn ==
    /\ pc = "block_loop"
    /\ i >= Len(lines)
    /\ result' = MakeRecord([name |-> name, phone |-> phone,
                             address_lines |-> address_lines,
                             note |-> note, amount |-> amount])
    /\ pc' = "block_done"
    /\ UNCHANGED <<block_text, lines, i, name, phone, address_lines, note, amount,
                   segVars, mainVars, valVars>>

BlockNext == BlockStart \/ BlockLine \/ BlockReturn

SpecBlock == BlockInit /\ [][BlockNext]_vars

(***************************************************************************)
(* validate_data                                                           *)
(***************************************************************************)
field_Name == <<"N", "a", "m", "e">>
field_Phone == <<"P", "h", "o", "n", "e">>
field_Address == <<"A", "d", "d", "r", "e", "s", "s">>
field_Amount == <<"A", "m", "o", "u", "n", "t">>

\* the mutant of validate_data: the length of Phone is not looked at
validate_data_without_length(d) ==
    (IF d.Name = <<>> THEN <<field_Name>> ELSE <<>>)
    \o (IF d.Phone = <<>> THEN <<field_Phone>> ELSE <<>>)
    \o (IF d.Address = <<>> THEN <<field_Address>> ELSE <<>>)
    \o (IF ~Truthy(d.Amount) THEN <<field_Amount>> ELSE <<>>)

\* lines 151-164
validate_data(d) ==
    (IF d.Name = <<>> THEN <<field_Name>> ELSE <<>>)
    \o (IF d.Phone = <<>> \/ Len(d.Phone) # PhoneLength THEN <<field_Phone>> ELSE <<>>)
    \o (IF d.Address = <<>> THEN <<field_Address>> ELSE <<>>)
    \o (IF ~Truthy(d.Amount) THEN <<field_Amount>> ELSE <<>>)

\* the digits a Phone of the model is a prefix of
SamplePhoneDigits ==
    { <<"0", "1", "7", "1", "2", "3", "4", "5", "6", "7", "8", "9", "0", "1", "2", "3">>,
      <<"۰", "۱", "۷", "۱", "۲", "۳", "۴", "۵", "۶", "۷", "۸", "۹", "۰", "۱", "۲", "۳">> }

\* the records validate_data is called with (line 151): it takes its
\* argument as it is, a Name or an Address of whitespace only included
SampleRecords ==
    {[Name |-> n, Address |-> a, Phone |-> SubSeq(ds, 1, p),
      Amount |-> m, Note |-> <<>>, DeliveryType |-> <<"H", "o", "m", "e">>] :
        n \in {<<>>, <<" ">>, <<no_break_space>>, <<"A">>, <<"A", " ", "b">>, <<" ", "C">>},
        a \in {<<>>, <<" ">>, <<"a", "r", "e", "a", " ", "X">>},
        ds \in SamplePhoneDigits,
        p \in 0..MaxPhoneLen,
        m \in {NoneVal, Str(<<>>), Str(<<"5">>), Str(<<"5", "0", "0">>)}}

\* validate_data(data) is called
ValidateInit ==
    /\ pc = "validate_call"
    /\ data \in SampleRecords
    /\ missing_fields = <<>>
    /\ i = 0
    /\ SegIdle /\ BlockIdle /\ MainIdle

\* lines 151-164
Validate ==
    /\ pc = "validate_call"
    /\ missing_fields' = validate_data(data)
    /\ pc' = "validate_done"
    /\ UNCHANGED <<data, i, segVars, blockVars, mainVars>>

ValidateNext == Validate

SpecValidate == ValidateInit /\ [][ValidateNext]_vars

(***************************************************************************)
(* main: lines 173-211                                                     *)
(***************************************************************************)
\* the customer entries a user_input of the model is made of
InputPoolBlocks ==
    { <<"n", "a", "m", "e", ":", " ", "A", "\n", "0", "1", "7", "1", "2", "3", "4", "5", "6", "7", "8", "\n", "a", "r", "e", "a", " ", "X", "\n", "o", "r", "d", "e", "r", "\n", "5", " ", "ট", "া", "ক", "া">>,
      <<"N", "a", "m", "e", ":", " ", "B", "\n", "০", "১", "৯", "১", "২", "৩", "৪", "৫", "৬", "৭", "৮", "\n", "জ", "ে", "ল", "া", ":", " ", "D", "\n", "o", "r", "d", "e", "r", "\n", "৭", "০", " ", "ট", "া", "ক", "া">>,
      <<"n", "a", "m", "e", ":", " ", "C", "\n", "a", "r", "e", "a", " ", "X", "\n", "o", "r", "d", "e", "r", "\n", "5", " ", "ট", "া", "ক", "া">>,
      <<"n", "a", "m", "e", ":", " ", "D", "\n", "۰", "۱", "۷", "۱", "۲", "۳", "۴", "۵", "۶", "۷", "۸", "\n", "a", "r", "e", "a", " ", "X", "\n", "o", "r", "d", "e", "r", "\n", "۵", " ", "ট", "া", "ক", "া">>,
      <<"n", "a", "m", ":">>,
      <<"s", "h", "i", "r", "t">> }

RECURSIVE JoinBlank(_)
JoinBlank(bs) ==
    IF bs = <<>> THEN <<>>
    ELSE IF Len(bs) = 1 THEN bs[1]
    ELSE bs[1] \o <<"\n", "\n">> \o JoinBlank(Tail(bs))

UserInputs ==
    {JoinBlank(bs) : bs \in UNION {[1..n -> InputPoolBlocks] : n \in 1..MaxBlocks}}
    \cup {<<>>, <<" ", "\n">>}

\* the button is pressed with user_input in the text area
MainInit ==
    /\ pc = "main_start"
    /\ user_input \in UserInputs
    /\ all_data = <<>> /\ invalid_entries = <<>>
    /\ df = <<>> /\ messages = <<>>
    /\ i = 0
    /\ SegIdle /\ BlockIdle /\ ValidateIdle

\* lines 174-183
MainStart ==
    /\ pc = "main_start"
    /\ IF Strip(user_input) = <<>>
       THEN /\ messages' = <<[kind |-> "error_no_input"]>>
            /\ pc' = "main_done"
            /\ UNCHANGED <<customer_blocks, i>>
       ELSE /\ customer_blocks' = extract_customer_blocks(user_input)
            /\ messages' = <<[kind |-> "write_found", count |-> Len(customer_blocks')]>>
            /\ i' = 1
            /\ pc' = "main_loop"
    /\ all_data' = <<>>
    /\ invalid_entries' = <<>>
    /\ UNCHANGED <<input_text, blocks, current_block, used_fallback, blockVars,
                   user_input, df, valVars>>

\* the mutant of MainLoopStep: enumerate counts from 0
MainLoopStepFromZero ==
    /\ pc = "main_loop"
    /\ i <= Len(customer_blocks)
    /\ data' = process_customer_block(customer_blocks[i])
    /\ missing_fields' = validate_data(data')
    /\ IF missing_fields' # <<>>
       THEN /\ invalid_entries' = Append(invalid_entries,
                  [i |-> i - 1, data |-> data', missing_fields |-> missing_fields'])
            /\ UNCHANGED all_data
       ELSE /\ all_data' = Append(all_data, data')
            /\ UNCHANGED invalid_entries
    /\ i' = i + 1
    /\ UNCHANGED <<pc, segVars, blockVars, user_input, df, messages>>

\* lines 186-195, the block of index i
MainLoopStep ==
    /\ pc = "main_loop"
    /\ i <= Len(customer_blocks)
    /\ data' = process_customer_block(customer_blocks[i])
    /\ missing_fields' = validate_data(data')
    /\ IF missing_fields' # <<>>
       THEN /\ invalid_entries' = Append(invalid_entries,
                  [i |-> i, data |-> data', missing_fields |-> missing_fields'])
            /\ UNCHANGED all_data
       ELSE /\ all_data' = Append(all_data, data')
            /\ UNCHANGED invalid_entries
    /\ i' = i + 1
    /\ UNCHANGED <<pc, segVars, blockVars, user_input, df, messages>>

\* lines 199-201: the warning and one line for each rejected entry
InvalidReport(entries) ==
    IF entries = <<>> THEN <<>>
    ELSE <<[kind |-> "warning_skipped", count |-> Len(entries)]>>
         \o [e \in 1..Len(entries) |->
                [kind |-> "write_entry", i |-> entries[e].i,
                 missing_fields |-> entries[e].missing_fields]]

\* lines 208-211: the DataFrame of the rows with the Invoice column inserted
WithInvoice(rows) == [r \in 1..Len(rows) |-> [Invoice |-> r, row |-> rows[r]]]

\* lines 197-211.  The loop of line 186 has left i at the index of the last
\* block; the loop of line 200 binds i, data and missing_fields again, to
\* each rejected entry in turn, and leaves them at the last one.
MainReport ==
    /\ pc = "main_loop"
    /\ i > Len(customer_blocks)
    /\ IF invalid_entries # <<>>
       THEN /\ i' = invalid_entries[Len(invalid_entries)].i
            /\ data' = invalid_entries[Len(invalid_entries)].data
            /\ missing_fields' = invalid_entries[Len(invalid_entries)].missing_fields
       ELSE /\ i' = Len(customer_blocks)
            /\ UNCHANGED <<data, missing_fields>>
    /\ IF all_data = <<>>
       THEN /\ messages' = messages \o InvalidReport(invalid_entries)
                                    \o <<[kind |-> "error_no_valid"]>>
            /\ pc' = "main_done"
            /\ UNCHANGED df
       ELSE /\ messages' = messages \o InvalidReport(invalid_entries)
            /\ df' = WithInvoice(all_data)
            /\ pc' = "main_export"
    /\ UNCHANGED <<segVars, blockVars, user_input, all_data, invalid_entries>>

\* what to_excel and the reading back of the file can do (lines 218-229):
\* succeed, raise ImportError (no openpyxl), or raise another exception
ExportOutcomes == {"saved", "ImportError", "Exception"}

\* lines 231-247: st.success, st.dataframe and st.download_button after a
\* save (the file read back holds the rows of df), else one st.error
ExportMessages(outcome) ==
    IF outcome = "saved"
    THEN <<[kind |-> "success", count |-> Len(all_data)],
           [kind |-> "dataframe", rows |-> df],
           [kind |-> "download_button", rows |-> df]>>
    ELSE IF outcome = "ImportError"
    THEN <<[kind |-> "error_openpyxl"]>>
    ELSE <<[kind |-> "error_saving"]>>

\* lines 213-247: the file name is the reading of the clock, given to
\* st.download_button only
MainExport ==
    /\ pc = "main_export"
    /\ \E outcome \in ExportOutcomes : messages' = messages \o ExportMessages(outcome)
    /\ pc' = "main_done"
    /\ UNCHANGED <<i, segVars, blockVars, user_input, all_data, invalid_entries, df,
                   valVars>>

MainNext == MainStart \/ MainLoopStep \/ MainReport \/ MainExport

SpecMain == MainInit /\ [][MainNext]_vars

(***************************************************************************)
(* The program as a whole: one of the functions is called.                 *)
(***************************************************************************)
Init == SegInit \/ BlockInit \/ ValidateInit \/ MainInit

Next == SegNext \/ BlockNext \/ ValidateNext \/ MainNext

Spec == Init /\ [][Next]_vars

(***************************************************************************)
(* Properties of extract_customer_blocks (SpecSeg).                        *)
(***************************************************************************)
\* the lines of the blocks, concatenated in block order
RECURSIVE LinesOfBlocks(_)
LinesOfBlocks(bs) ==
    IF bs = <<>> THEN <<>> ELSE Split(Head(bs), "\n") \o LinesOfBlocks(Tail(bs))

\* the trimmed non-blank lines of a text, a line ending at \n or \r
TrimmedLinesOf(text) ==
    LET raw == Split([p \in 1..Len(text) |-> IF text[p] = "\r" THEN "\n" ELSE text[p]], "\n")
    IN  SelectSeq([p \in 1..Len(raw) |-> Strip(raw[p])], NonEmpty)

\* the segments of a text: what lies between its blank lines, as trimmed
\* non-blank lines
SegmentsOf(text) ==
    LET pieces == SplitBlocks(text)
    IN  SelectSeq([p \in 1..Len(pieces) |-> TrimmedLinesOf(pieces[p])], NonEmpty)

\* a segment opens with a name marker: one of its first two lines starts
\* with one, in any case
OpensWithNameMarker(seg) ==
    \E p \in 1..Len(seg) :
        /\ p <= 2
        /\ \E a \in 1..Len(segment_name_markers) :
              AtIgnoreCase(seg[p], 1, segment_name_markers[a])

NameMarkedIn(segs) == Cardinality({p \in 1..Len(segs) : OpensWithNameMarker(segs[p])})

NameMarkedCount(text) == NameMarkedIn(SegmentsOf(text))

\* C3 as stated: an input with N >= 1 name-marked segments gives exactly N
\* blocks, wherever its other segments are.
C3_Original ==
    pc = "seg_done" =>
        \A n \in {NameMarkedCount(input_text)} :
            n >= 1 => Len(customer_blocks) = n

\* C3 amended: an input with N >= 1 name-marked segments gives N blocks when
\* its first segment is name-marked, and N + 1 blocks when it is not (the
\* segments before the first name-marked one form a block of their own).
C3_Amended ==
    pc = "seg_done" =>
        \A segs \in {SegmentsOf(input_text)} :
            NameMarkedIn(segs) >= 1 =>
                Len(customer_blocks) =
                    NameMarkedIn(segs) + (IF OpensWithNameMarker(segs[1]) THEN 0 ELSE 1)

\* C3's case: two name-marked segments after a leading segment without a
\* marker have given three blocks.
C3_Witness ==
    /\ pc = "seg_done"
    /\ NameMarkedCount(input_text) = 2
    /\ Len(SegmentsOf(input_text)) = 3
    /\ ~OpensWithNameMarker(SegmentsOf(input_text)[1])
    /\ Len(customer_blocks) = 3

\* C10: the lines of the returned blocks, in block order, are the trimmed
\* non-blank lines of the input in their order; no block is empty, blank
\* input gives no block, other input at least one, and the whole-input
\* fallback of line 92 is never taken.
C10_LinesPreserved ==
    pc = "seg_done" =>
        /\ LinesOfBlocks(customer_blocks) = TrimmedLinesOf(input_text)
        /\ \A b \in 1..Len(customer_blocks) : customer_blocks[b] # <<>>
        /\ (Strip(input_text) = <<>>) <=> (customer_blocks = <<>>)
        /\ ~used_fallback

\* C10's case: an input of three lines, one ended by a carriage return, was
\* cut into two blocks.
C10_Witness ==
    /\ pc = "seg_done"
    /\ Len(customer_blocks) = 2
    /\ Len(TrimmedLinesOf(input_text)) = 3
    /\ Contains(input_text, <<"\r">>)

(***************************************************************************)
(* Properties of process_customer_block (SpecBlock).                       *)
(***************************************************************************)
\* the trimmed non-empty lines of the block, in scan order
ScannedLines == SelectSeq([p \in 1..Len(lines) |-> Strip(lines[p])], NonEmpty)

\* C1: every field of the returned record is a string, never None.
C1_AllFieldsStrings ==
    pc = "block_done" => result.Amount.tag = "str"

\* kw occurs in s, compared without regard to case
ContainsIgnoreCase(s, kw) == \E p \in 1..(Len(s) + 1) : AtIgnoreCase(s, p, kw)

ContainsAnyIgnoreCase(s, kws) == \E a \in 1..Len(kws) : ContainsIgnoreCase(s, kws[a])

\* the Phone C5 gives a line: the 11 digits after a +88, else a maximal run
\* of exactly 11 digits, after digit normalization
ClaimedLinePhone(line) ==
    LET e == bengali_to_english_digits(line)
        prefixed == {p \in 1..Len(e) : At(e, p, <<"+", "8", "8">>) /\ DigitsAt(e, p + 3, PhoneDigits)}
        runs == {p \in 1..Len(e) :
                    /\ DigitsAt(e, p, PhoneDigits)
                    /\ (p = 1 \/ ~IsDigit(e[p - 1]))
                    /\ (p + PhoneDigits > Len(e) \/ ~IsDigit(e[p + PhoneDigits]))}
    IN  IF prefixed # {} THEN SubSeq(e, Min(prefixed) + 3, Min(prefixed) + 3 + PhoneDigits - 1)
        ELSE IF runs # {} THEN SubSeq(e, Min(runs), Min(runs) + PhoneDigits - 1)
        ELSE <<>>

ClaimedPhone(ls) ==
    LET matching == {p \in 1..Len(ls) : ClaimedLinePhone(ls[p]) # <<>>}
    IN  IF matching = {} THEN <<>> ELSE ClaimedLinePhone(ls[Min(matching)])

\* C5: Phone is the 11 digits of the first line holding +88 and 11 digits or
\* a run of exactly 11 digits, without the +88; empty when no line has one.
C5_Phone ==
    pc = "block_done" => result.Phone = ClaimedPhone(ScannedLines)

\* the Note C6 gives a block: the first non-empty line after the first line
\* with an order marker
ClaimedNote(ls) ==
    LET marked == {p \in 1..Len(ls) : ContainsAny(ls[p], order_keywords)}
    IN  IF marked = {} \/ Min(marked) = Len(ls) THEN <<>> ELSE ls[Min(marked) + 1]

\* C6: only the first order-marker line is honored: Note is the first
\* non-empty line after it, whatever order markers come later.
C6_FirstOrderMarkerOnly ==
    pc = "block_done" => result.Note = ClaimedNote(ScannedLines)

\* the Amount C7 gives a Note: the first number followed by a currency unit,
\* else the first run of digits, else none
ClaimedAmount(n) ==
    LET text == bengali_to_english_digits(n)
        numbers == {p \in 1..Len(text) : IsDigit(text[p]) /\ (p = 1 \/ ~IsDigit(text[p - 1]))}
        withUnit == {p \in numbers :
                        LET u == SpaceRunEnd(text, DigitRunEnd(text, p) + 1) + 1
                        IN  At(text, u, taka_bengali) \/ At(text, u, taka_english)}
    IN  IF withUnit # {} THEN Str(SubSeq(text, Min(withUnit), DigitRunEnd(text, Min(withUnit))))
        ELSE IF numbers # {} THEN Str(SubSeq(text, Min(numbers), DigitRunEnd(text, Min(numbers))))
        ELSE NoneVal

\* C7: the Amount of a Note is its first number followed by টাকা or Taka, else
\* its first run of digits; there is none only when the Note has no digit.
C7_Amount ==
    (pc = "block_done" /\ result.Note # <<>>) => result.Amount = ClaimedAmount(result.Note)

\* C8: Address is the newline-join of the lines with an address marker and
\* without an order marker, the markers matched in any case.
C8_AddressIgnoringCase ==
    pc = "block_done" =>
        result.Address =
            Join(SelectSeq(ScannedLines,
                           LAMBDA l : /\ ContainsAnyIgnoreCase(l, address_keywords)
                                      /\ ~ContainsAnyIgnoreCase(l, order_keywords)),
                 "\n")

\* the Name C9 gives a line: the trimmed line without its first name-marker
\* token (in any case, wherever it stands), the whitespace and the colon
\* after the token
ClaimedName(line) ==
    LET l == Strip(line)
        tokensAt(p) == {a \in 1..Len(name_prefix_markers) :
                          AtIgnoreCase(l, p, name_prefix_markers[a])}
        hits == {p \in 1..Len(l) : tokensAt(p) # {}}
    IN  IF hits = {} THEN l
        ELSE LET first == Min(hits)
                 afterToken == first - 1
                               + Max({Len(name_prefix_markers[a]) : a \in tokensAt(first)})
                 afterSpace == SpaceRunEnd(l, afterToken + 1)
                 afterColon == IF afterSpace + 1 <= Len(l)
                                  /\ l[afterSpace + 1] \in {":", "U+FF1A"}
                               THEN afterSpace + 1 ELSE afterSpace
             IN  Strip(SubSeq(l, 1, first - 1) \o SubSeq(l, afterColon + 1, Len(l)))

\* C9: Name is captured once, from the first line of the block, no later
\* line changes it, and it is that line without its name-marker token and
\* the colon after it, so that it no longer holds a name marker.
C9_NameCapturedOnce ==
    pc = "block_done" =>
        /\ result.Name = ClaimedName(lines[1])
        /\ ~ContainsAny(result.Name, name_keywords)

(***************************************************************************)
(* Properties of validate_data (SpecValidate).                             *)
(***************************************************************************)
validated_fields == {field_Name, field_Phone, field_Address, field_Amount}

SetOf(s) == {s[p] : p \in 1..Len(s)}

\* the defects of C4
DefectsOf(d) ==
    {f \in validated_fields :
        \/ f = field_Name /\ Strip(d.Name) = <<>>
        \/ f = field_Phone /\ (d.Phone = <<>> \/ Len(d.Phone) # 11)
        \/ f = field_Address /\ d.Address = <<>>
        \/ f = field_Amount /\ (d.Amount = NoneVal \/ d.Amount = Str(<<>>))}

\* a Name as process_customer_block leaves it in a record (line 117 strips it)
HasExtractedName(d) == d.Name = Strip(d.Name)

\* C4: for a record with a Name as process_customer_block leaves it,
\* validate_data returns exactly the fields with a defect, each once (a
\* Name is defective when empty after trimming, a Phone when empty or not
\* of length 11, an Address when empty, an Amount when empty or None), and
\* leaves the record as it was.
C4_DefectsReported ==
    [][(pc' = "validate_done" /\ HasExtractedName(data)) =>
          /\ data' = data
          /\ SetOf(missing_fields') = DefectsOf(data)
          /\ Len(missing_fields') = Cardinality(SetOf(missing_fields'))]_vars

\* C4's case: a record with a Phone of 10 digits and no Amount was reported
\* with both defects and no other.
C4_Witness ==
    /\ pc = "validate_done"
    /\ Len(data.Phone) = 10
    /\ data.Amount = NoneVal
    /\ HasExtractedName(data)
    /\ data.Name # <<>> /\ data.Address # <<>>
    /\ missing_fields = <<field_Phone, field_Amount>>

(***************************************************************************)
(* Properties of main's loop (SpecMain).                                   *)
(***************************************************************************)
\* the (1-based) indexes of the blocks whose record has no defect
ValidBlocks ==
    {b \in 1..Len(customer_blocks) :
        validate_data(process_customer_block(customer_blocks[b])) = <<>>}

\* the r-th element of a set of numbers
Nth(S, r) == CHOOSE x \in S : Cardinality({y \in S : y <= x}) = r

\* C2: the exported rows are the records without defect in input order,
\* their Invoice numbers 1..K; every other block is reported once, with its
\* 1-based index and its defects; exported + rejected = number of blocks.
C2_ExportOrder ==
    (pc = "main_done" /\ Strip(user_input) # <<>>) =>
        /\ Len(df) = Cardinality(ValidBlocks)
        /\ \A r \in 1..Len(df) :
              /\ df[r].Invoice = r
              /\ df[r].row = process_customer_block(customer_blocks[Nth(ValidBlocks, r)])
        /\ Len(df) + Len(invalid_entries) = Len(customer_blocks)
        /\ \A b \in (1..Len(customer_blocks)) \ ValidBlocks :
              /\ Cardinality({e \in 1..Len(invalid_entries) : invalid_entries[e].i = b}) = 1
              /\ \E e \in 1..Len(invalid_entries) :
                    /\ invalid_entries[e].i = b
                    /\ invalid_entries[e].data = process_customer_block(customer_blocks[b])
                    /\ invalid_entries[e].missing_fields = validate_data(invalid_entries[e].data)
              /\ Cardinality({m \in 1..Len(messages) :
                                 /\ messages[m].kind = "write_entry"
                                 /\ messages[m].i = b}) = 1
              /\ \E m \in 1..Len(messages) :
                    /\ messages[m].kind = "write_entry"
                    /\ messages[m].i = b
                    /\ messages[m].missing_fields =
                          validate_data(process_customer_block(customer_blocks[b]))

\* C2's case: three blocks, the middle one rejected, gave two rows numbered
\* 1 and 2 and one report for block 2.
C2_Witness ==
    /\ pc = "main_done"
    /\ Len(customer_blocks) = 3
    /\ ValidBlocks = {1, 3}
    /\ Len(df) = 2
    /\ df[2].Invoice = 2
    /\ df[1].row # df[2].row
    /\ Len(invalid_entries) = 1
    /\ invalid_entries[1].i = 2
    /\ \E m \in 1..Len(messages) : messages[m].kind = "success" /\ messages[m].count = 2

====
